---- MODULE Spec2Model ----
\* A model of src/nni_manager/core/sqlDatabase.ts: the SqlDB store (init, close,
\* three store operations, four query operations), the row loaders, the
\* callback-to-promise bridge `resolve`, and the part of the sqlite3 driver and of
\* JSON.stringify / JSON.parse that the store relies on.
EXTENDS Integers, Sequences, FiniteSets, TLC

\* ---------------------------------------------------------------- bounds
\* Promises handed to callers of the store instance in one run.
MaxPromises == 3
\* Largest reading of the wall clock (Date.now()).
MaxClock == 1

\* ---------------------------------------------------------------- JavaScript values
\* Every JavaScript value is a record of one shape, so that any two can be compared:
\* t is the type tag, n the numeric payload (number, date), toks the text of a
\* string, keys/kids the members of an object or the elements of an array.
JS(t, n, toks, keys, kids) == [t |-> t, n |-> n, toks |-> toks, keys |-> keys, kids |-> kids]
Undefined == JS("undefined", 0, <<>>, <<>>, <<>>)
JNull == JS("null", 0, <<>>, <<>>, <<>>)
NaN == JS("nan", 0, <<>>, <<>>, <<>>)
Num(n) == JS("number", n, <<>>, <<>>, <<>>)
Str(toks) == JS("string", 0, toks, <<>>, <<>>)
Arr(kids) == JS("array", 0, <<>>, <<>>, kids)
Obj(keys, kids) == JS("object", 0, <<>>, keys, kids)
DateOf(ms) == JS("date", ms, <<>>, <<>>, <<>>)
Err(name) == JS("error", 0, <<>>, <<name>>, <<>>)

\* The text of a string is a sequence of tokens. A string that is not JSON text is
\* one "chars" token; JSON text is made of punctuation, string, number and null tokens.
Tok(k, s, n) == [n |-> n, k |-> k, s |-> s]
Chars(s) == Tok("chars", s, 0)
Punct(s) == Tok("punct", s, 0)
TStr(s) == Tok("str", s, 0)
TNum(n) == Tok("num", "", n)
TNull == Tok("null", "", 0)
Text(s) == Str(<<Chars(s)>>)

\* Members of an object that JSON.stringify writes: those whose value is not undefined.
KeptMembers(v) == SelectSeq([i \in 1..Len(v.keys) |-> i], LAMBDA i: v.kids[i].t # "undefined")

\* JSON.stringify of a value that is not undefined at top level, as JSON tokens:
\* NaN and an undefined array element become null, an undefined member is left out.
RECURSIVE StringifyValue(_)
RECURSIVE StringifyList(_, _, _)
StringifyValue(v) ==
    CASE v.t = "number" -> <<TNum(v.n)>>
      [] v.t = "string" -> <<TStr(v.toks[1].s)>>
      [] v.t = "array" ->
            <<Punct("[")>> \o StringifyList(v, [i \in 1..Len(v.kids) |-> i], FALSE) \o <<Punct("]")>>
      [] v.t = "object" ->
            <<Punct("{")>> \o StringifyList(v, KeptMembers(v), TRUE) \o <<Punct("}")>>
      [] OTHER -> <<TNull>>
StringifyList(v, idx, withKeys) ==
    IF idx = <<>> THEN <<>>
    ELSE (IF withKeys THEN <<TStr(v.keys[Head(idx)]), Punct(":")>> ELSE <<>>)
         \o StringifyValue(v.kids[Head(idx)])
         \o (IF Len(idx) > 1 THEN <<Punct(",")>> ELSE <<>>)
         \o StringifyList(v, Tail(idx), withKeys)

\* JSON.stringify(v): undefined for undefined, else the JSON text as a string.
JSONstringify(v) == IF v.t = "undefined" THEN Undefined ELSE Str(StringifyValue(v))

\* JSON.parse, by recursive descent over the tokens. A parse step returns
\* [ok, v, i]: whether a value was read, the value, and the next position.
ParseFail == [ok |-> FALSE, v |-> Undefined, i |-> 0]
ParseOk(v, i) == [ok |-> TRUE, v |-> v, i |-> i]
At(toks, i, tk) == i <= Len(toks) /\ toks[i] = tk

RECURSIVE ParseValue(_, _)
RECURSIVE ParseElems(_, _, _)
RECURSIVE ParseMembers(_, _, _, _)
ParseValue(toks, i) ==
    IF i > Len(toks) THEN ParseFail
    ELSE CASE toks[i].k = "num" -> ParseOk(Num(toks[i].n), i + 1)
           [] toks[i].k = "str" -> ParseOk(Text(toks[i].s), i + 1)
           [] toks[i].k = "null" -> ParseOk(JNull, i + 1)
           [] toks[i] = Punct("[") ->
                 IF At(toks, i + 1, Punct("]")) THEN ParseOk(Arr(<<>>), i + 2)
                 ELSE ParseElems(toks, i + 1, <<>>)
           [] toks[i] = Punct("{") ->
                 IF At(toks, i + 1, Punct("}")) THEN ParseOk(Obj(<<>>, <<>>), i + 2)
                 ELSE ParseMembers(toks, i + 1, <<>>, <<>>)
           [] OTHER -> ParseFail
ParseElems(toks, i, acc) ==
    LET r == ParseValue(toks, i) IN
    IF ~r.ok THEN ParseFail
    ELSE IF At(toks, r.i, Punct(",")) THEN ParseElems(toks, r.i + 1, Append(acc, r.v))
    ELSE IF At(toks, r.i, Punct("]")) THEN ParseOk(Arr(Append(acc, r.v)), r.i + 1)
    ELSE ParseFail
ParseMembers(toks, i, keys, kids) ==
    IF ~(i + 1 <= Len(toks) /\ toks[i].k = "str" /\ toks[i + 1] = Punct(":")) THEN ParseFail
    ELSE LET r == ParseValue(toks, i + 2) IN
         IF ~r.ok THEN ParseFail
         ELSE IF At(toks, r.i, Punct(","))
              THEN ParseMembers(toks, r.i + 1, Append(keys, toks[i].s), Append(kids, r.v))
         ELSE IF At(toks, r.i, Punct("}"))
              THEN ParseOk(Obj(Append(keys, toks[i].s), Append(kids, r.v)), r.i + 1)
         ELSE ParseFail

\* JSON.parse(x): [ok, v]. ok is FALSE where JSON.parse throws a SyntaxError.
\* A null argument is converted to the text "null" and parses to null.
JSONparse(x) ==
    IF x.t = "null" THEN [ok |-> TRUE, v |-> JNull]
    ELSE IF x.t # "string" THEN [ok |-> FALSE, v |-> Undefined]
    ELSE LET r == ParseValue(x.toks, 1) IN
         IF r.ok /\ r.i = Len(x.toks) + 1 THEN [ok |-> TRUE, v |-> r.v]
         ELSE [ok |-> FALSE, v |-> Undefined]

\* obj.key of a parsed object: undefined when the member is missing.
Member(v, key) ==
    IF v.t = "object" /\ \E i \in 1..Len(v.keys) : v.keys[i] = key
    THEN v.kids[CHOOSE i \in 1..Len(v.keys) : v.keys[i] = key]
    ELSE Undefined

\* ---------------------------------------------------------------- SQL values and rows
SqlNull == [n |-> 0, toks |-> <<>>, type |-> "null"]
SqlInt(n) == [n |-> n, toks |-> <<>>, type |-> "integer"]
SqlText(toks) == [n |-> 0, toks |-> toks, type |-> "text"]

\* The driver binds a JavaScript argument to a statement parameter: undefined and
\* null bind NULL, a number an integer, a string its text.
Bind(v) ==
    CASE v.t = "number" -> SqlInt(v.n)
      [] v.t = "string" -> SqlText(v.toks)
      [] OTHER -> SqlNull
BindAll(args) == [i \in 1..Len(args) |-> Bind(args[i])]

\* The driver hands a column back as a JavaScript value: NULL as null.
FromSql(c) ==
    CASE c.type = "integer" -> Num(c.n)
      [] c.type = "text" -> Str(c.toks)
      [] OTHER -> JNull

\* The three tables of createTables, as the column names of each.
createTables ==
    [TrialJobEvent |-> <<"timestamp", "trialJobId", "event", "data", "logPath">>,
     MetricData |-> <<"timestamp", "trialJobId", "parameterId", "type", "sequence", "data">>,
     ExperimentProfile |-> <<"params", "id", "execDuration", "startTime", "endTime", "revision">>]
Tables == DOMAIN createTables

\* new Date(ms) and date.getTime().
NewDate(v) == DateOf(v.n)
GetTime(d) == Num(d.n)

\* A loader returns [ok, v]; ok is FALSE where the loader throws.
LoadOptionalDateFalsy(c) ==
    IF c.type = "null" \/ c.n = 0 THEN Undefined ELSE NewDate(FromSql(c))

\* row.startTime === null ? undefined : new Date(row.startTime)
LoadOptionalDate(c) == IF c.type = "null" THEN Undefined ELSE NewDate(FromSql(c))
\* row.data === null ? undefined : row.data
LoadOptional(c) == IF c.type = "null" THEN Undefined ELSE FromSql(c)

ProfileKeys == <<"params", "id", "execDuration", "startTime", "endTime", "revision">>
EventKeys == <<"timestamp", "trialJobId", "event", "data", "logPath">>
MetricKeys == <<"timestamp", "trialJobId", "parameterId", "type", "sequence", "data">>

loadExperimentProfileUnparsed(row) ==
    [ok |-> TRUE,
     v |-> Obj(ProfileKeys,
               <<FromSql(row.params), FromSql(row.id), FromSql(row.execDuration),
                 LoadOptionalDate(row.startTime), LoadOptionalDate(row.endTime),
                 FromSql(row.revision)>>)]

loadExperimentProfile(row) ==
    LET p == JSONparse(FromSql(row.params)) IN
    [ok |-> p.ok,
     v |-> Obj(ProfileKeys,
               <<p.v, FromSql(row.id), FromSql(row.execDuration),
                 LoadOptionalDate(row.startTime), LoadOptionalDate(row.endTime),
                 FromSql(row.revision)>>)]

loadTrialJobEvent(row) ==
    [ok |-> TRUE,
     v |-> Obj(EventKeys,
               <<NewDate(FromSql(row.timestamp)), FromSql(row.trialJobId), FromSql(row.event),
                 LoadOptional(row.data), LoadOptional(row.logPath)>>)]

\* loadMetricData, were it to parse the data column as loadExperimentProfile parses
\* params.
loadMetricDataParsed(row) ==
    LET p == JSONparse(FromSql(row.data)) IN
    [ok |-> p.ok,
     v |-> Obj(MetricKeys,
               <<NewDate(FromSql(row.timestamp)), FromSql(row.trialJobId),
                 FromSql(row.parameterId), FromSql(row.type), FromSql(row.sequence),
                 p.v>>)]

loadMetricData(row) ==
    [ok |-> TRUE,
     v |-> Obj(MetricKeys,
               <<NewDate(FromSql(row.timestamp)), FromSql(row.trialJobId),
                 FromSql(row.parameterId), FromSql(row.type), FromSql(row.sequence),
                 FromSql(row.data)>>)]

Load(rowLoader, row) ==
    CASE rowLoader = "loadExperimentProfile" -> loadExperimentProfile(row)
      [] rowLoader = "loadTrialJobEvent" -> loadTrialJobEvent(row)
      [] OTHER -> loadMetricData(row)

\* ---------------------------------------------------------------- the SQL statements
InsertProfileSql == "insert into ExperimentProfile values (?,?,?,?,?,?)"
SelectProfileSql == "select * from ExperimentProfile where id=? order by revision DESC"
SelectProfileRevSql == "select * from ExperimentProfile where id=? and revision=?"
InsertEventSql == "insert into TrialJobEvent values (?,?,?,?,?)"
SelectEventSql == "select * from TrialJobEvent"
SelectEventByEventSql == "select * from TrialJobEvent where event=?"
SelectEventByJobSql == "select * from TrialJobEvent where trialJobId=?"
SelectEventByBothSql == "select * from TrialJobEvent where trialJobId=? and event=?"
InsertMetricSql == "insert into MetricData values (?,?,?,?,?,?)"
SelectMetricSql == "select * from MetricData"
SelectMetricByTypeSql == "select * from MetricData where type=?"
SelectMetricByJobSql == "select * from MetricData where trialJobId=?"
SelectMetricByBothSql == "select * from MetricData where trialJobId=? and type=?"

\* What the engine reads off a statement: its table, the columns of its where
\* clause (one per parameter, in order) and the column of a descending order by.
Statement(sql) ==
    CASE sql = InsertProfileSql -> [table |-> "ExperimentProfile", where |-> <<>>, desc |-> ""]
      [] sql = SelectProfileSql -> [table |-> "ExperimentProfile", where |-> <<"id">>, desc |-> "revision"]
      [] sql = SelectProfileRevSql -> [table |-> "ExperimentProfile", where |-> <<"id", "revision">>, desc |-> ""]
      [] sql = InsertEventSql -> [table |-> "TrialJobEvent", where |-> <<>>, desc |-> ""]
      [] sql = SelectEventSql -> [table |-> "TrialJobEvent", where |-> <<>>, desc |-> ""]
      [] sql = SelectEventByEventSql -> [table |-> "TrialJobEvent", where |-> <<"event">>, desc |-> ""]
      [] sql = SelectEventByJobSql -> [table |-> "TrialJobEvent", where |-> <<"trialJobId">>, desc |-> ""]
      [] sql = SelectEventByBothSql -> [table |-> "TrialJobEvent", where |-> <<"trialJobId", "event">>, desc |-> ""]
      [] sql = InsertMetricSql -> [table |-> "MetricData", where |-> <<>>, desc |-> ""]
      [] sql = SelectMetricSql -> [table |-> "MetricData", where |-> <<>>, desc |-> ""]
      [] sql = SelectMetricByTypeSql -> [table |-> "MetricData", where |-> <<"type">>, desc |-> ""]
      [] sql = SelectMetricByJobSql -> [table |-> "MetricData", where |-> <<"trialJobId">>, desc |-> ""]
      [] OTHER -> [table |-> "MetricData", where |-> <<"trialJobId", "type">>, desc |-> ""]

\* insert into T values (?,...): the row made of the bound parameters, by column.
InsertedRow(sql, args) ==
    LET cols == createTables[Statement(sql).table] IN
    [c \in {cols[i] : i \in 1..Len(cols)} |-> args[CHOOSE i \in 1..Len(cols) : cols[i] = c]]

\* The table after an insert, were the statement `insert or replace` on a table
\* whose newest row it replaces.
InsertOrReplace(rows, row) ==
    IF rows = <<>> THEN <<row>> ELSE [rows EXCEPT ![Len(rows)] = row]
\* The table after `insert into T values (...)`: the tables have no key and no
\* unique column, so the row is added after the rows already there.
Insert(rows, row) == Append(rows, row)

\* column = ? : SQL equality, which NULL never satisfies.
SqlEq(a, b) == a.type # "null" /\ b.type # "null" /\ a = b
Matches(row, where, args) == \A i \in 1..Len(where) : SqlEq(row[where[i]], args[i])

\* The orders in which the engine may return `rows` under `order by col DESC`:
\* every arrangement with col non-increasing (rows with equal col in any order).
Arrangements(n) == {p \in [1..n -> 1..n] : \A i, j \in 1..n : i # j => p[i] # p[j]}
Ascending(rows, col) == \A i \in 1..(Len(rows) - 1) : rows[i][col].n <= rows[i + 1][col].n
Descending(rows, col) == \A i \in 1..(Len(rows) - 1) : rows[i][col].n >= rows[i + 1][col].n
OrderByAsc(rows, col) ==
    {r \in {[i \in 1..Len(rows) |-> rows[p[i]]] : p \in Arrangements(Len(rows))} :
        Ascending(r, col)}
OrderByDesc(rows, col) ==
    {r \in {[i \in 1..Len(rows) |-> rows[p[i]]] : p \in Arrangements(Len(rows))} :
        Descending(r, col)}

\* select * from T [where ...] [order by col DESC]: the row lists the engine may return.
SelectRows(sql, args, table) ==
    LET st == Statement(sql)
        hit == SelectSeq(table, LAMBDA row : Matches(row, st.where, args))
    IN IF st.desc = "" THEN {hit} ELSE OrderByDesc(hit, st.desc)

\* ---------------------------------------------------------------- arguments and statements
\* The args array of storeExperimentProfile.
ProfileArgs(exp) ==
    <<JSONstringify(Member(exp, "params")),
      Member(exp, "id"),
      Member(exp, "execDuration"),
      IF Member(exp, "startTime") = Undefined THEN JNull ELSE GetTime(Member(exp, "startTime")),
      IF Member(exp, "endTime") = Undefined THEN JNull ELSE GetTime(Member(exp, "endTime")),
      Member(exp, "revision")>>

ProfileQueryIgnoringRevision(experimentId, revision) ==
    [sql |-> SelectProfileSql, args |-> <<experimentId>>]

\* The statement and args queryExperimentProfile chooses.
ProfileQuery(experimentId, revision) ==
    IF revision = Undefined
    THEN [sql |-> SelectProfileSql, args |-> <<experimentId>>]
    ELSE [sql |-> SelectProfileRevSql, args |-> <<experimentId, revision>>]

\* The args array of storeTrialJobEvent; `clock` is Date.now().
EventArgs(clock, event, trialJobId, data, logPath) ==
    <<Num(clock), trialJobId, event, data, logPath>>

EventQueryFiltersMixedUp(trialJobId, event) ==
    IF trialJobId = Undefined /\ event = Undefined
    THEN [sql |-> SelectEventSql, args |-> <<>>]
    ELSE IF trialJobId = Undefined
    THEN [sql |-> SelectEventByJobSql, args |-> <<event>>]
    ELSE IF event = Undefined
    THEN [sql |-> SelectEventByEventSql, args |-> <<trialJobId>>]
    ELSE [sql |-> SelectEventByBothSql, args |-> <<trialJobId, event>>]

\* The statement and args queryTrialJobEvent chooses.
EventQuery(trialJobId, event) ==
    IF trialJobId = Undefined /\ event = Undefined
    THEN [sql |-> SelectEventSql, args |-> <<>>]
    ELSE IF trialJobId = Undefined
    THEN [sql |-> SelectEventByEventSql, args |-> <<event>>]
    ELSE IF event = Undefined
    THEN [sql |-> SelectEventByJobSql, args |-> <<trialJobId>>]
    ELSE [sql |-> SelectEventByBothSql, args |-> <<trialJobId, event>>]

\* The args array of storeMetricData, were the timestamp that of the envelope when
\* it carries one.
MetricArgsEnvelopeTimestamp(clock, json) ==
    <<IF Member(json, "timestamp") = Undefined THEN Num(clock) ELSE Member(json, "timestamp"),
      Member(json, "trialJobId"), Member(json, "parameterId"),
      Member(json, "type"), Member(json, "sequence"), JSONstringify(Member(json, "data"))>>
\* The args array of storeMetricData, from the parsed envelope `json`.
MetricArgs(clock, json) ==
    <<Num(clock), Member(json, "trialJobId"), Member(json, "parameterId"),
      Member(json, "type"), Member(json, "sequence"), JSONstringify(Member(json, "data"))>>

\* The statement and args queryMetricData chooses.
MetricQuery(trialJobId, metricType) ==
    IF metricType = Undefined /\ trialJobId = Undefined
    THEN [sql |-> SelectMetricSql, args |-> <<>>]
    ELSE IF trialJobId = Undefined
    THEN [sql |-> SelectMetricByTypeSql, args |-> <<metricType>>]
    ELSE IF metricType = Undefined
    THEN [sql |-> SelectMetricByJobSql, args |-> <<trialJobId>>]
    ELSE [sql |-> SelectMetricByBothSql, args |-> <<trialJobId, metricType>>]

\* ---------------------------------------------------------------- inputs
JBool(b) == JS("boolean", IF b THEN 1 ELSE 0, <<>>, <<>>, <<>>)

\* Directories a caller may name; fs.existsSync is true of the first only.
Dirs == {"/exp", "/missing"}
ExistingDirs == {"/exp"}

\* Experiment profiles a caller may store: two with the same id and revision, a
\* later revision, another experiment; params that JSON represents and params with
\* an undefined member; start and end times absent, at the epoch and after it.
ExperimentIds == {"exp1", "exp2"}
Revisions == {0, 1}
ParamsPlain == Obj(<<"lr", "layers">>, <<Num(1), Arr(<<Num(1), Num(2)>>)>>)
ParamsText == Obj(<<"name">>, <<Text("mnist")>>)
ParamsUndefinedMember == Obj(<<"lr", "gpuNum">>, <<Num(1), Undefined>>)
Profile(id, revision, params, execDuration, startTime, endTime) ==
    Obj(ProfileKeys,
        <<params, Text(id), Num(execDuration), startTime, endTime, Num(revision)>>)
EarlierProfile == Profile("exp1", 0, ParamsPlain, 0, Undefined, Undefined)
EarlierRevision == Profile("exp1", 1, ParamsUndefinedMember, 5, DateOf(7), DateOf(0))
Profiles ==
    {EarlierProfile,
     Profile("exp1", 0, ParamsText, 5, DateOf(0), Undefined),
     EarlierRevision,
     Profile("exp2", 1, ParamsPlain, 0, Undefined, DateOf(9))}

\* Trial job events a caller may store: data and logPath absent, empty and not.
TrialJobIds == {"t1", "t2"}
Events == {"RUNNING", "SUCCEEDED"}
TrialEvent(event, trialJobId, data, logPath) ==
    [event |-> Text(event), trialJobId |-> Text(trialJobId), data |-> data, logPath |-> logPath]
EarlierEvent == TrialEvent("RUNNING", "t1", Undefined, Undefined)
EarlierEventOfAnother == TrialEvent("RUNNING", "t2", Text("d"), Undefined)
TrialEvents ==
    {EarlierEvent,
     TrialEvent("SUCCEEDED", "t1", Text(""), Text("")),
     EarlierEventOfAnother,
     TrialEvent("SUCCEEDED", "t2", Undefined, Text("/log"))}

\* Metric envelopes a caller may pass: complete ones (one carrying a timestamp of
\* its own), one without sequence and data, and text that is not JSON.
MetricTypes == {"PERIODICAL", "FINAL"}
Envelope(trialJobId, type, sequence, data) ==
    JSONstringify(Obj(<<"trialJobId", "parameterId", "type", "sequence", "data">>,
                      <<Text(trialJobId), Text("p0"), Text(type), Num(sequence), data>>))
EarlierEnvelope == Envelope("t1", "PERIODICAL", 0, Num(5))
EnvelopeWithTimestamp ==
    JSONstringify(Obj(<<"timestamp", "trialJobId", "parameterId", "type", "sequence", "data">>,
                      <<Num(9), Text("t2"), Text("p0"), Text("PERIODICAL"), Num(0),
                        Obj(<<"acc">>, <<Num(1)>>)>>))
EnvelopeIncomplete ==
    JSONstringify(Obj(<<"trialJobId", "type">>, <<Text("t1"), Text("FINAL")>>))
NotJson == Text("not valid json")
\* The calls storeMetricData(trialJobId, data) a caller may make: the trialJobId
\* argument agrees with the envelope's or differs from it.
MetricCalls ==
    {<<"t1", EarlierEnvelope>>, <<"t2", EarlierEnvelope>>,
     <<"t1", Envelope("t1", "FINAL", 1, Text("0.9"))>>, <<"t1", EnvelopeWithTimestamp>>,
     <<"t1", EnvelopeIncomplete>>, <<"t1", NotJson>>}
\* The filters a caller may pass to queryTrialJobEvent and queryMetricData.
EventFilters == {"RUNNING"}
MetricTypeFilters == {"PERIODICAL"}

\* The file <dir>/nni.sqlite before init: missing, an empty database, a file that
\* cannot be opened, a database that holds the three tables, empty, or the three
\* tables with rows that an earlier run of the store has written.
NoRows == <<>>
DbFile(exists, openable, schema, profiles, events, metrics) ==
    [exists |-> exists, openable |-> openable, schema |-> schema,
     ExperimentProfile |-> profiles, TrialJobEvent |-> events, MetricData |-> metrics]
EarlierRows ==
    DbFile(TRUE, TRUE, TRUE,
           <<InsertedRow(InsertProfileSql, BindAll(ProfileArgs(EarlierProfile))),
             InsertedRow(InsertProfileSql, BindAll(ProfileArgs(EarlierRevision)))>>,
           <<InsertedRow(InsertEventSql,
                         BindAll(EventArgs(0, EarlierEvent.event, EarlierEvent.trialJobId,
                                           EarlierEvent.data, EarlierEvent.logPath))),
             InsertedRow(InsertEventSql,
                         BindAll(EventArgs(0, EarlierEventOfAnother.event,
                                           EarlierEventOfAnother.trialJobId,
                                           EarlierEventOfAnother.data,
                                           EarlierEventOfAnother.logPath)))>>,
           <<InsertedRow(InsertMetricSql,
                         BindAll(MetricArgs(0, JSONparse(EarlierEnvelope).v)))>>)
InitialFiles ==
    {DbFile(FALSE, TRUE, FALSE, NoRows, NoRows, NoRows),
     DbFile(TRUE, TRUE, FALSE, NoRows, NoRows, NoRows),
     DbFile(TRUE, FALSE, FALSE, NoRows, NoRows, NoRows),
     DbFile(TRUE, TRUE, TRUE, NoRows, NoRows, NoRows),
     EarlierRows}


\* A database file written by another program: beside the rows of an earlier run,
\* a profile row whose params and a metric row whose data are not JSON text.
MalformedProfileRow ==
    [InsertedRow(InsertProfileSql, BindAll(ProfileArgs(EarlierRevision)))
        EXCEPT !.params = SqlText(NotJson.toks)]
MalformedMetricRow ==
    [InsertedRow(InsertMetricSql, BindAll(MetricArgs(0, JSONparse(EarlierEnvelope).v)))
        EXCEPT !.data = SqlText(NotJson.toks)]
ForeignFiles ==
    {DbFile(TRUE, TRUE, TRUE, <<MalformedProfileRow>>, NoRows, <<MalformedMetricRow>>),
     DbFile(TRUE, TRUE, TRUE,
            <<EarlierRows.ExperimentProfile[1], MalformedProfileRow>>, NoRows,
            <<EarlierRows.MetricData[1], MalformedMetricRow>>)}

\* ---------------------------------------------------------------- state
VARIABLES
    file,          \* the database file <ExistingDir>/nni.sqlite: existence, schema, rows
    db,            \* this.db: "undefined", or the handle's state
    initTask,      \* this.initTask: 0 for undefined, else the id of its Deferred
    deferred,      \* the state of every Deferred created, by id
    queue,         \* requests handed to the driver whose callback has not run yet
    lastCall,      \* the latest public call: what it returned or threw
    delivered,     \* the latest settlement made by a driver callback
    initReturned,  \* the init calls that returned: their arguments and promise
    opened,        \* the paths the driver was asked to open, in order
    execs,         \* how many times the driver was asked to run createTables
    now,           \* the wall clock
    process,       \* which run of the program this is: 0, then 1 after a restart
    acknowledged   \* history: the rows of the stores whose promise was resolved, by table

vars == <<file, db, initTask, deferred, queue, lastCall, delivered, initReturned, opened,
          execs, now, process, acknowledged>>

NoCall == [op |-> "", args |-> <<>>]
\* A call that returned leaves its promise; a call that threw, what was called and
\* the exception.
Returned(op, args, promise) ==
    [op |-> "", args |-> <<>>, threw |-> FALSE, promise |-> promise, error |-> JNull]
Threw(op, args, error) ==
    [op |-> op, args |-> args, threw |-> TRUE, promise |-> 0, error |-> error]
\* A settlement: the promise, the call it belongs to, the error the driver passed
\* to the callback, and what the callback did with the promise.
Delivery(promise, call, error, kind, value) ==
    [promise |-> promise, call |-> call, error |-> error, kind |-> kind, value |-> value]

\* No store has been acknowledged.
NoneAcknowledged == [ExperimentProfile |-> <<>>, TrialJobEvent |-> <<>>, MetricData |-> <<>>]

Init ==
    /\ file \in InitialFiles
    /\ db = "undefined"
    /\ initTask = 0
    /\ deferred = <<>>
    /\ queue = <<>>
    /\ lastCall = Returned("", <<>>, 0)
    /\ delivered = Delivery(0, NoCall, JNull, "", Undefined)
    /\ initReturned = <<>>
    /\ opened = <<>>
    /\ execs = 0
    /\ now = 0
    /\ process = 0
    /\ acknowledged = NoneAcknowledged

\* ---------------------------------------------------------------- the bridge
\* new Deferred(): the id of the next Deferred.
NewDeferred == Len(deferred) + 1

\* The promises handed out so far: those init returned and those of the Deferreds
\* the other calls created.
Handed == Len(initReturned) + Len(deferred) - (IF initTask # 0 THEN 1 ELSE 0)
InitReturn(createNew, dbDir, promise) ==
    [createNew |-> createNew, dbDir |-> dbDir, promise |-> promise]

\* deferred.resolve / deferred.reject: a settled promise stays as it is.
Settle(ds, d, kind) == IF ds[d] = "pending" THEN [ds EXCEPT ![d] = kind] ELSE ds

\* SqlDB.resolve(deferred, error, rows, rowLoader): what it does to the Deferred.
\* "threw": a row loader threw, so the Deferred is neither resolved nor rejected.
resolve(error, rows, rowLoader) ==
    IF error # JNull THEN [kind |-> "rejected", value |-> error]
    ELSE IF rowLoader = "" THEN [kind |-> "resolved", value |-> Undefined]
    ELSE LET data == [i \in 1..Len(rows) |-> Load(rowLoader, rows[i])] IN
         IF \E i \in 1..Len(rows) : ~data[i].ok
         THEN [kind |-> "threw", value |-> Err("SyntaxError")]
         ELSE [kind |-> "resolved", value |-> Arr([i \in 1..Len(rows) |-> data[i].v])]

Apply(ds, d, out) == IF out.kind = "threw" THEN ds ELSE Settle(ds, d, out.kind)

\* A request to the driver. Every request has the same fields; what does not apply
\* is empty. `outer` is the promise of an async caller awaiting the request's promise.
Request(op, sql, args, d, loader, call, create, path, outer) ==
    [op |-> op, sql |-> sql, args |-> args, deferred |-> d, loader |-> loader, call |-> call,
     create |-> create, path |-> path, outer |-> outer]

\* ---------------------------------------------------------------- init and close
InitNeverStarted == FALSE

\* The guard, were initTask assigned only once the directory was found.
InitStartedAndAsserted == initTask # 0 /\ opened # <<>>
\* this.initTask !== undefined
InitStarted == initTask # 0

AssertSkipped(dbDir) == TRUE

\* assert(fs.existsSync(dbDir))
AssertDirExists(dbDir) == dbDir \in ExistingDirs

InitArgs(createNew, dbDir) == <<JBool(createNew), Text(dbDir)>>

init(createNew, dbDir) ==
    /\ Handed < MaxPromises
    /\ IF InitStarted
       THEN /\ lastCall' = Returned("init", InitArgs(createNew, dbDir), initTask)
            /\ initReturned' = Append(initReturned, InitReturn(createNew, dbDir, initTask))
            /\ UNCHANGED <<initTask, deferred, db, queue, opened>>
       ELSE /\ initTask' = NewDeferred
            /\ deferred' = Append(deferred, "pending")
            /\ IF ~AssertDirExists(dbDir)
               THEN /\ lastCall' = Threw("init", InitArgs(createNew, dbDir), Err("AssertionError"))
                    /\ UNCHANGED <<initReturned, db, queue, opened>>
               ELSE /\ db' = "opening"
                    /\ opened' = Append(opened, dbDir)
                    /\ queue' = Append(queue,
                          Request("open", "", <<>>, NewDeferred, "",
                                  [op |-> "init", args |-> InitArgs(createNew, dbDir)],
                                  createNew, dbDir, 0))
                    /\ lastCall' = Returned("init", InitArgs(createNew, dbDir), NewDeferred)
                    /\ initReturned' =
                          Append(initReturned, InitReturn(createNew, dbDir, NewDeferred))
    /\ UNCHANGED <<file, delivered, execs, now, process, acknowledged>>

\* What the driver reports for new sqlite3.Database(file, mode): the file cannot be
\* opened when its directory is missing, when it is missing and the mode lacks
\* OPEN_CREATE, or when it is not openable.
OpenError(req) ==
    IF req.path \notin ExistingDirs \/ (~file.exists /\ ~req.create) \/ ~file.openable
    THEN Err("SQLITE_CANTOPEN")
    ELSE JNull

\* The error the createTables callback passes to this.resolve: `err` is the open
\* callback's parameter, `error` the exec callback's own.
ExecCallbackError(err, error) == err

\* The callback of new sqlite3.Database(...).
OpenCallback ==
    /\ queue # <<>>
    /\ Head(queue).op = "open"
    /\ LET req == Head(queue)
           err == OpenError(req)
           out == resolve(err, <<>>, "")
       IN /\ file' = IF err = JNull THEN [file EXCEPT !.exists = TRUE] ELSE file
          /\ db' = IF err = JNull THEN "open" ELSE "failed"
          /\ IF err # JNull
             THEN /\ deferred' = Apply(deferred, initTask, out)
                  /\ delivered' = Delivery(initTask, req.call, err, out.kind, out.value)
                  /\ queue' = Tail(queue)
                  /\ UNCHANGED execs
             ELSE IF req.create
             THEN /\ queue' = Append(Tail(queue),
                        Request("exec", "createTables", <<>>, initTask, "", req.call,
                                req.create, req.path, 0))
                  /\ execs' = execs + 1
                  /\ UNCHANGED <<deferred, delivered>>
             ELSE /\ deferred' = Settle(deferred, initTask, "resolved")
                  /\ delivered' = Delivery(initTask, req.call, err, "resolved", Undefined)
                  /\ queue' = Tail(queue)
                  /\ UNCHANGED execs
    /\ UNCHANGED <<initTask, lastCall, initReturned, opened, now, process, acknowledged>>

\* The callback of this.db.exec(createTables, ...). The script fails when a table
\* it creates exists already.
ExecCallback ==
    /\ queue # <<>>
    /\ Head(queue).op = "exec"
    /\ LET req == Head(queue)
           error == IF file.schema THEN Err("SQLITE_ERROR: table already exists") ELSE JNull
           out == resolve(ExecCallbackError(JNull, error), <<>>, "")
       IN /\ file' = [file EXCEPT !.schema = TRUE]
          /\ deferred' = Apply(deferred, initTask, out)
          /\ delivered' = Delivery(initTask, req.call, error, out.kind, out.value)
          /\ queue' = Tail(queue)
    /\ UNCHANGED <<db, initTask, lastCall, initReturned, opened, execs, now, process, acknowledged>>

\* this.db is undefined until init has constructed the handle: a method call on it throws.
DbDefined == db # "undefined"

\* The common shape of close, the store and the query operations: create a
\* Deferred, hand the request to this.db, return the Deferred's promise.
Submit(op, args, req) ==
    /\ ~DbDefined \/ Handed < MaxPromises
    /\ IF ~DbDefined
       THEN /\ lastCall' = Threw(op, args, Err("TypeError"))
            /\ UNCHANGED <<deferred, queue>>
       ELSE /\ deferred' = Append(deferred, "pending")
            /\ queue' = Append(queue, req)
            /\ lastCall' = Returned(op, args, NewDeferred)
    /\ UNCHANGED <<file, db, initTask, delivered, initReturned, opened, execs, now, process, acknowledged>>

close ==
    Submit("close", <<>>,
           Request("close", "", <<>>, NewDeferred, "", [op |-> "close", args |-> <<>>],
                   FALSE, "", 0))

\* What the driver reports for a statement or a close on the handle as it is.
HandleError == IF db # "open" THEN Err("SQLITE_MISUSE") ELSE JNull

\* The callback of this.db.close(...).
CloseCallback ==
    /\ queue # <<>>
    /\ Head(queue).op = "close"
    /\ LET req == Head(queue)
           out == resolve(HandleError, <<>>, "")
       IN /\ db' = IF HandleError = JNull THEN "closed" ELSE db
          /\ deferred' = Apply(deferred, req.deferred, out)
          /\ delivered' = Delivery(req.deferred, req.call, HandleError, out.kind, out.value)
          /\ queue' = Tail(queue)
    /\ UNCHANGED <<file, initTask, lastCall, initReturned, opened, execs, now, process, acknowledged>>

\* What the driver reports for a statement: the handle must be open and the
\* statement's table must exist.
StatementError ==
    IF HandleError # JNull THEN HandleError
    ELSE IF ~file.schema THEN Err("SQLITE_ERROR: no such table")
    ELSE JNull

\* The callback of this.db.run(sql, args, ...): the engine has run the insert.
RunCallback ==
    /\ queue # <<>>
    /\ Head(queue).op = "run"
    /\ LET req == Head(queue)
           table == Statement(req.sql).table
           out == resolve(StatementError, <<>>, "")
       IN /\ file' = IF StatementError = JNull
                     THEN [file EXCEPT ![table] = Insert(@, InsertedRow(req.sql, req.args))]
                     ELSE file
          /\ deferred' = Apply(deferred, req.deferred, out)
          /\ delivered' = Delivery(req.deferred, req.call, StatementError, out.kind, out.value)
          /\ queue' = Tail(queue)
          /\ acknowledged' = IF out.kind = "resolved"
                             THEN [acknowledged EXCEPT
                                      ![table] = Append(@, InsertedRow(req.sql, req.args))]
                             ELSE acknowledged
    /\ UNCHANGED <<db, initTask, lastCall, initReturned, opened, execs, now, process>>

queryLatestResultLast(out) ==
    IF out.kind = "resolved"
    THEN [kind |-> "resolved",
          value |-> IF Len(out.value.kids) = 0 THEN Undefined
                    ELSE out.value.kids[Len(out.value.kids)]]
    ELSE out

\* queryLatestExperimentProfile after its await: profiles[0], which is undefined
\* for an empty list; a rejection of the awaited promise rejects the caller's.
queryLatestResult(out) ==
    IF out.kind = "resolved"
    THEN [kind |-> "resolved",
          value |-> IF Len(out.value.kids) = 0 THEN Undefined ELSE out.value.kids[1]]
    ELSE out

\* The callback of this.db.all(sql, args, ...): the engine has run the select.
AllCallback ==
    /\ queue # <<>>
    /\ Head(queue).op = "all"
    /\ LET req == Head(queue) IN
       \E rows \in (IF StatementError = JNull
                    THEN SelectRows(req.sql, req.args, file[Statement(req.sql).table])
                    ELSE {<<>>}) :
          LET out == resolve(StatementError, rows, req.loader) IN
          IF req.outer = 0
          THEN /\ deferred' = Apply(deferred, req.deferred, out)
               /\ delivered' = Delivery(req.deferred, req.call, StatementError, out.kind,
                                        out.value)
          ELSE /\ deferred' = Apply(Apply(deferred, req.deferred, out), req.outer,
                                    queryLatestResult(out))
               /\ delivered' = Delivery(req.outer, req.call, StatementError,
                                        queryLatestResult(out).kind,
                                        queryLatestResult(out).value)
    /\ queue' = Tail(queue)
    /\ UNCHANGED <<file, db, initTask, lastCall, initReturned, opened, execs, now, process, acknowledged>>

\* ---------------------------------------------------------------- ExperimentProfile
storeExperimentProfile(exp) ==
    Submit("storeExperimentProfile", <<exp>>,
           Request("run", InsertProfileSql, BindAll(ProfileArgs(exp)), NewDeferred, "",
                   [op |-> "storeExperimentProfile", args |-> <<exp>>], FALSE, "", 0))

queryExperimentProfile(experimentId, revision) ==
    Submit("queryExperimentProfile", <<experimentId, revision>>,
           Request("all", ProfileQuery(experimentId, revision).sql,
                   BindAll(ProfileQuery(experimentId, revision).args), NewDeferred,
                   "loadExperimentProfile",
                   [op |-> "queryExperimentProfile", args |-> <<experimentId, revision>>],
                   FALSE, "", 0))

\* An async function: it returns its own promise, and the call it awaits settles
\* another. A throw inside it (this.db undefined) rejects its promise.
queryLatestExperimentProfile(experimentId) ==
    /\ Handed + (IF DbDefined THEN 2 ELSE 1) <= MaxPromises
    /\ lastCall' = Returned("queryLatestExperimentProfile", <<experimentId>>, NewDeferred)
    /\ IF ~DbDefined
       THEN /\ deferred' = Append(deferred, "rejected")
            /\ UNCHANGED queue
       ELSE /\ deferred' = deferred \o <<"pending", "pending">>
            /\ queue' = Append(queue,
                  Request("all", ProfileQuery(experimentId, Undefined).sql,
                          BindAll(ProfileQuery(experimentId, Undefined).args), NewDeferred + 1,
                          "loadExperimentProfile",
                          [op |-> "queryLatestExperimentProfile", args |-> <<experimentId>>],
                          FALSE, "", NewDeferred))
    /\ UNCHANGED <<file, db, initTask, delivered, initReturned, opened, execs, now, process, acknowledged>>

\* ---------------------------------------------------------------- TrialJobEvent
storeTrialJobEvent(event, trialJobId, data, logPath) ==
    Submit("storeTrialJobEvent", <<event, trialJobId, data, logPath>>,
           Request("run", InsertEventSql,
                   BindAll(EventArgs(now, event, trialJobId, data, logPath)), NewDeferred, "",
                   [op |-> "storeTrialJobEvent", args |-> <<event, trialJobId, data, logPath>>],
                   FALSE, "", 0))

queryTrialJobEvent(trialJobId, event) ==
    Submit("queryTrialJobEvent", <<trialJobId, event>>,
           Request("all", EventQuery(trialJobId, event).sql,
                   BindAll(EventQuery(trialJobId, event).args), NewDeferred,
                   "loadTrialJobEvent",
                   [op |-> "queryTrialJobEvent", args |-> <<trialJobId, event>>],
                   FALSE, "", 0))

\* ---------------------------------------------------------------- MetricData
\* A call that throws before it has created anything.
Throw(op, args, error) ==
    /\ lastCall' = Threw(op, args, error)
    /\ UNCHANGED <<file, db, initTask, deferred, queue, delivered, initReturned, opened,
                   execs, now, process, acknowledged>>

\* JSON.parse(data), read from a table for the texts that callers pass.
ParsedEnvelopes == {<<c[2], JSONparse(c[2])>> : c \in MetricCalls}
ParseEnvelope(data) ==
    IF \E p \in ParsedEnvelopes : p[1] = data
    THEN (CHOOSE p \in ParsedEnvelopes : p[1] = data)[2]
    ELSE JSONparse(data)

\* storeMetricData, were the trialJobId column bound to the argument.
storeMetricDataOfArgument(trialJobId, data) ==
    LET json == ParseEnvelope(data) IN
    IF ~json.ok
    THEN Throw("storeMetricData", <<trialJobId, data>>, Err("SyntaxError"))
    ELSE IF json.v.t = "null"
    THEN Throw("storeMetricData", <<trialJobId, data>>, Err("TypeError"))
    ELSE Submit("storeMetricData", <<trialJobId, data>>,
                Request("run", InsertMetricSql,
                        [BindAll(MetricArgs(now, json.v)) EXCEPT ![2] = Bind(trialJobId)],
                        NewDeferred, "",
                        [op |-> "storeMetricData", args |-> <<trialJobId, data>>],
                        FALSE, "", 0))

\* JSON.parse(data) runs first and throws on text that is not JSON; reading a
\* member of a parsed null throws as well.
storeMetricData(trialJobId, data) ==
    LET json == ParseEnvelope(data) IN
    IF ~json.ok
    THEN Throw("storeMetricData", <<trialJobId, data>>, Err("SyntaxError"))
    ELSE IF json.v.t = "null"
    THEN Throw("storeMetricData", <<trialJobId, data>>, Err("TypeError"))
    ELSE Submit("storeMetricData", <<trialJobId, data>>,
                Request("run", InsertMetricSql, BindAll(MetricArgs(now, json.v)),
                        NewDeferred, "",
                        [op |-> "storeMetricData", args |-> <<trialJobId, data>>],
                        FALSE, "", 0))

queryMetricData(trialJobId, metricType) ==
    Submit("queryMetricData", <<trialJobId, metricType>>,
           Request("all", MetricQuery(trialJobId, metricType).sql,
                   BindAll(MetricQuery(trialJobId, metricType).args), NewDeferred,
                   "loadMetricData",
                   [op |-> "queryMetricData", args |-> <<trialJobId, metricType>>],
                   FALSE, "", 0))

\* The wall clock advances.
Tick ==
    /\ now < MaxClock
    /\ now' = now + 1
    /\ UNCHANGED <<file, db, initTask, deferred, queue, lastCall, delivered, initReturned,
                   opened, execs, process, acknowledged>>

\* A restart after which the database file is there with its tables and no row.
RestartLosingRows ==
    /\ process = 0
    /\ db = "closed"
    /\ queue = <<>>
    /\ process' = 1
    /\ db' = "undefined"
    /\ initTask' = 0
    /\ deferred' = <<>>
    /\ lastCall' = Returned("", <<>>, 0)
    /\ delivered' = Delivery(0, NoCall, JNull, "", Undefined)
    /\ initReturned' = <<>>
    /\ opened' = <<>>
    /\ execs' = 0
    /\ file' = DbFile(TRUE, TRUE, TRUE, NoRows, NoRows, NoRows)
    /\ UNCHANGED <<queue, now, acknowledged>>
\* The program ends after the database was closed and is started again: a fresh
\* SqlDB whose fields are undefined, no promise and no request of the old run left,
\* and the database file as the old run left it.
Restart ==
    /\ process = 0
    /\ db = "closed"
    /\ queue = <<>>
    /\ process' = 1
    /\ db' = "undefined"
    /\ initTask' = 0
    /\ deferred' = <<>>
    /\ lastCall' = Returned("", <<>>, 0)
    /\ delivered' = Delivery(0, NoCall, JNull, "", Undefined)
    /\ initReturned' = <<>>
    /\ opened' = <<>>
    /\ execs' = 0
    /\ UNCHANGED <<file, queue, now, acknowledged>>

\* ---------------------------------------------------------------- specifications
\* The values an optional argument may take: undefined, or one of the given.
Optional(S) == {Undefined} \cup {Text(x) : x \in S}
OptionalRevisions == {Undefined} \cup {Num(r) : r \in Revisions}
OptionalTrialJobIds == Optional(TrialJobIds)
OptionalEvents == Optional(EventFilters)
OptionalMetricTypes == Optional(MetricTypeFilters)
CompleteMetricCalls ==
    {c \in MetricCalls : \A k \in {"trialJobId", "type", "sequence", "data"} :
                             Member(ParseEnvelope(c[2]).v, k) # Undefined}

InitCalls == \E createNew \in BOOLEAN, dbDir \in Dirs : init(createNew, dbDir)
StoreProfileCalls == \E exp \in Profiles : storeExperimentProfile(exp)
QueryProfileCalls ==
    \E id \in ExperimentIds, revision \in OptionalRevisions :
        queryExperimentProfile(Text(id), revision)
QueryLatestCalls == \E id \in ExperimentIds : queryLatestExperimentProfile(Text(id))
StoreEventCalls ==
    \E e \in TrialEvents : storeTrialJobEvent(e.event, e.trialJobId, e.data, e.logPath)
QueryEventCalls ==
    \E trialJobId \in OptionalTrialJobIds, event \in OptionalEvents :
        queryTrialJobEvent(trialJobId, event)
StoreMetricCalls ==
    \E c \in MetricCalls : storeMetricData(Text(c[1]), c[2])
StoreCompleteMetricCalls ==
    \E c \in CompleteMetricCalls : storeMetricData(Text(c[1]), c[2])
QueryMetricCalls ==
    \E trialJobId \in OptionalTrialJobIds, metricType \in OptionalMetricTypes :
        queryMetricData(trialJobId, metricType)

\* The lifecycle alone: init, close and their callbacks.
NextInit ==
    \/ InitCalls
    \/ close
    \/ OpenCallback
    \/ ExecCallback
    \/ CloseCallback
SpecInit == Init /\ [][NextInit]_vars

\* The lifecycle and the ExperimentProfile operations.
NextProfile ==
    \/ NextInit
    \/ StoreProfileCalls
    \/ QueryProfileCalls
    \/ QueryLatestCalls
    \/ RunCallback
    \/ AllCallback
SpecProfile == Init /\ [][NextProfile]_vars

\* The lifecycle and the TrialJobEvent and MetricData operations, the clock standing.
NextTrial ==
    \/ NextInit
    \/ StoreEventCalls
    \/ QueryEventCalls
    \/ StoreMetricCalls
    \/ QueryMetricCalls
    \/ RunCallback
    \/ AllCallback
SpecTrial == Init /\ [][NextTrial]_vars

\* The lifecycle and the operations whose queries take two optional filters, the
\* metric envelopes stored being complete ones.
NextFilter ==
    \/ NextInit
    \/ StoreEventCalls
    \/ QueryEventCalls
    \/ StoreCompleteMetricCalls
    \/ QueryMetricCalls
    \/ RunCallback
    \/ AllCallback
SpecFilter == Init /\ [][NextFilter]_vars

\* The lifecycle and the operations on the records with optional fields.
NextProfileEvent ==
    \/ NextProfile
    \/ StoreEventCalls
    \/ QueryEventCalls
SpecProfileEvent == Init /\ [][NextProfileEvent]_vars

\* The lifecycle and the queries that parse or return JSON columns, on a file that
\* another program has written.
InitForeign ==
    /\ file \in ForeignFiles
    /\ db = "undefined"
    /\ initTask = 0
    /\ deferred = <<>>
    /\ queue = <<>>
    /\ lastCall = Returned("", <<>>, 0)
    /\ delivered = Delivery(0, NoCall, JNull, "", Undefined)
    /\ initReturned = <<>>
    /\ opened = <<>>
    /\ execs = 0
    /\ now = 0
    /\ process = 0
    /\ acknowledged = NoneAcknowledged
NextForeign ==
    \/ NextInit
    \/ QueryProfileCalls
    \/ QueryLatestCalls
    \/ QueryMetricCalls
    \/ AllCallback
SpecForeign == InitForeign /\ [][NextForeign]_vars

\* The lifecycle, the three store operations, and each of the four queries asking
\* for every row it can (every revision of one experiment, no filter on the other
\* two tables), the clock standing.
QueryEverythingCalls ==
    \/ queryExperimentProfile(Text("exp1"), Undefined)
    \/ queryLatestExperimentProfile(Text("exp1"))
    \/ queryTrialJobEvent(Undefined, Undefined)
    \/ queryMetricData(Undefined, Undefined)
NextStore ==
    \/ NextInit
    \/ StoreProfileCalls
    \/ StoreEventCalls
    \/ StoreCompleteMetricCalls
    \/ QueryEverythingCalls
    \/ RunCallback
    \/ AllCallback
SpecStore == Init /\ [][NextStore]_vars

\* A run that stores and closes, and a run after it that opens the database without
\* createNew and reads: init, the three stores and close in the first run, init and
\* the four queries in the second, and the restart. The first run
\* finds no database file, or the file of an earlier run.
RestartFiles == {DbFile(FALSE, TRUE, FALSE, NoRows, NoRows, NoRows), EarlierRows}
InitRestart ==
    /\ file \in RestartFiles
    /\ db = "undefined"
    /\ initTask = 0
    /\ deferred = <<>>
    /\ queue = <<>>
    /\ lastCall = Returned("", <<>>, 0)
    /\ delivered = Delivery(0, NoCall, JNull, "", Undefined)
    /\ initReturned = <<>>
    /\ opened = <<>>
    /\ execs = 0
    /\ now = 0
    /\ process = 0
    /\ acknowledged = NoneAcknowledged
ReopenCalls == \E dbDir \in ExistingDirs : init(FALSE, dbDir)
NextRestart ==
    \/ process = 0 /\ InitCalls
    \/ process = 1 /\ ReopenCalls
    \/ process = 0 /\ close
    \/ OpenCallback
    \/ ExecCallback
    \/ CloseCallback
    \/ process = 0 /\ StoreProfileCalls
    \/ process = 0 /\ StoreEventCalls
    \/ process = 0 /\ StoreCompleteMetricCalls
    \/ process = 1 /\ QueryEverythingCalls
    \/ RunCallback
    \/ AllCallback
    \/ Restart
SpecRestart == InitRestart /\ [][NextRestart]_vars

\* The lifecycle, the stores of the two tables with a timestamp (one trial job
\* event, one metric envelope without a timestamp and one with), and the clock.
TimestampedStoreCalls ==
    \/ storeTrialJobEvent(EarlierEvent.event, EarlierEvent.trialJobId, EarlierEvent.data,
                          EarlierEvent.logPath)
    \/ storeMetricData(Text("t1"), EarlierEnvelope)
    \/ storeMetricData(Text("t2"), EnvelopeWithTimestamp)
NextClock ==
    \/ NextInit
    \/ TimestampedStoreCalls
    \/ RunCallback
    \/ Tick
SpecClock == Init /\ [][NextClock]_vars

\* The lifecycle and the two tables with a JSON column: the stores of profiles and
\* of metric envelopes of every kind, and the queries by experiment and by trial job.
QueryPayloadCalls ==
    \/ queryExperimentProfile(Text("exp1"), Undefined)
    \/ queryMetricData(Text("t1"), Undefined)
NextPayload ==
    \/ NextInit
    \/ StoreProfileCalls
    \/ StoreMetricCalls
    \/ QueryPayloadCalls
    \/ RunCallback
    \/ AllCallback
SpecPayload == Init /\ [][NextPayload]_vars

\* Every operation of the store, and the clock.
Next ==
    \/ NextProfile
    \/ NextTrial
    \/ Tick
Spec == Init /\ [][Next]_vars

\* ---------------------------------------------------------------- properties: init
\* C1: every init call that returned, whatever its arguments and whether or not the
\* first call had completed, returned the promise of the one initTask; the driver
\* was asked to open a database at most once and to run createTables at most once.
C1_SingleFlightInit ==
    /\ \A i \in 1..Len(initReturned) : initReturned[i].promise = initTask
    /\ Len(opened) <= 1
    /\ execs <= 1

\* Two init calls with different createNew and directory have returned, the second
\* while the first's schema creation is still outstanding.
C1_Witness ==
    /\ Len(initReturned) >= 2
    /\ initReturned[1].createNew # initReturned[2].createNew
    /\ initReturned[1].dbDir # initReturned[2].dbDir
    /\ deferred[initTask] = "pending"
    /\ execs = 1
    /\ queue # <<>>

\* C2 (as claimed): whenever the driver reports an error to a callback of init (the
\* open failed, or createTables failed), the shared init promise is rejected.
C2_InitFailureRejects ==
    (delivered.call.op = "init" /\ delivered.error # JNull) => deferred[initTask] = "rejected"

\* C3 (as claimed): no init call that names a missing directory returns; each aborts.
C3_MissingDirectoryAlwaysAborts ==
    \A i \in 1..Len(initReturned) : initReturned[i].dbDir \in ExistingDirs

\* C3 (amended): an init call that finds initTask undefined and names a missing
\* directory aborts on the assertion before the driver is asked for anything: the
\* driver is never asked to open a file in a missing directory, and when an init call
\* has thrown, it threw the assertion's error for a missing directory, nothing was
\* opened or queued, no handle exists and the file is as it was.
C3_FatalPrecondition ==
    /\ \A i \in 1..Len(opened) : opened[i] \in ExistingDirs
    /\ (lastCall.threw /\ lastCall.op = "init") =>
          /\ lastCall.error = Err("AssertionError")
          /\ lastCall.args[2] \notin {Text(d) : d \in ExistingDirs}
          /\ opened = <<>>
          /\ queue = <<>>
          /\ db = "undefined"
          /\ file \in InitialFiles

\* An init call has aborted on a missing directory, after creating initTask.
C3_Witness ==
    /\ lastCall.threw
    /\ lastCall.op = "init"
    /\ lastCall.args[2] = Text("/missing")
    /\ initTask # 0
    /\ opened = <<>>

\* ---------------------------------------------------------------- properties: profiles
\* Two lists hold the same elements, each as many times.
Count(seq, x) == Cardinality({i \in 1..Len(seq) : seq[i] = x})
SameBag(a, b) ==
    /\ Len(a) = Len(b)
    /\ \A i \in 1..Len(a) : Count(a, a[i]) = Count(b, a[i])

\* A query of the named operation has been answered with a list.
Answered(op) == delivered.call.op = op /\ delivered.kind = "resolved"
Got == delivered.value.kids

\* The rows of ExperimentProfile with the given id, as records, in insertion order.
ProfileRecords(experimentId) ==
    LET hit == SelectSeq(file.ExperimentProfile, LAMBDA row : FromSql(row.id) = experimentId)
    IN [i \in 1..Len(hit) |-> loadExperimentProfile(hit[i]).v]
ProfileRecordsAt(experimentId, revision) ==
    SelectSeq(ProfileRecords(experimentId), LAMBDA r : Member(r, "revision") = revision)

\* C4: queryExperimentProfile(id) with no revision answers with exactly the stored
\* rows of that id, each once per row, ordered by revision descending.
C4_RevisionOrdering ==
    (Answered("queryExperimentProfile") /\ delivered.call.args[2] = Undefined) =>
        /\ SameBag(Got, ProfileRecords(delivered.call.args[1]))
        /\ \A i \in 1..(Len(Got) - 1) :
              Member(Got[i], "revision").n >= Member(Got[i + 1], "revision").n

\* The answer lists two rows of one id in the reverse of their insertion order.
C4_Witness ==
    /\ Answered("queryExperimentProfile")
    /\ delivered.call.args[2] = Undefined
    /\ Len(Got) = 2
    /\ Member(Got[1], "revision").n > Member(Got[2], "revision").n
    /\ Got[1] = ProfileRecords(delivered.call.args[1])[2]

\* C5: when the select it issues runs without error, queryLatestExperimentProfile(id)
\* resolves: with a stored row of that id whose revision no row of that id exceeds
\* when there is one, and with undefined, not a rejection, when there is none.
C5_LatestProfile ==
    (delivered.call.op = "queryLatestExperimentProfile" /\ delivered.error = JNull) =>
        LET records == ProfileRecords(delivered.call.args[1]) IN
        /\ delivered.kind = "resolved"
        /\ deferred[delivered.promise] = "resolved"
        /\ IF records = <<>>
           THEN delivered.value = Undefined
           ELSE /\ \E i \in 1..Len(records) : records[i] = delivered.value
                /\ \A i \in 1..Len(records) :
                      Member(records[i], "revision").n <= Member(delivered.value, "revision").n

\* The latest of two rows of differing revision has been returned.
C5_Witness ==
    /\ delivered.call.op = "queryLatestExperimentProfile"
    /\ delivered.kind = "resolved"
    /\ Len(ProfileRecords(delivered.call.args[1])) = 2
    /\ Member(delivered.value, "revision").n = 1
    /\ Member(ProfileRecords(delivered.call.args[1])[1], "revision").n = 0

\* C6 (as claimed): queryExperimentProfile(id, revision) answers with at most one
\* record, and any record it answers with has that id and that revision.
C6_AtMostOneExactMatch ==
    (Answered("queryExperimentProfile") /\ delivered.call.args[2] # Undefined) =>
        /\ Len(Got) <= 1
        /\ \A i \in 1..Len(Got) :
              /\ Member(Got[i], "id") = delivered.call.args[1]
              /\ Member(Got[i], "revision") = delivered.call.args[2]

\* C6 (amended): queryExperimentProfile(id, revision) answers with exactly the
\* stored rows of that id and revision, one record per row (so with at most one
\* record unless that id and revision were stored more than once), and any record
\* it answers with has that id and that revision.
C6_ExactMatches ==
    (Answered("queryExperimentProfile") /\ delivered.call.args[2] # Undefined) =>
        /\ SameBag(Got, ProfileRecordsAt(delivered.call.args[1], delivered.call.args[2]))
        /\ \A i \in 1..Len(Got) :
              /\ Member(Got[i], "id") = delivered.call.args[1]
              /\ Member(Got[i], "revision") = delivered.call.args[2]

\* A query by id and revision has answered with the one matching row, of three
\* rows stored and two of that id.
C6_Witness ==
    /\ Answered("queryExperimentProfile")
    /\ delivered.call.args[2] = Num(0)
    /\ Len(Got) = 1
    /\ Len(file.ExperimentProfile) = 3
    /\ Len(ProfileRecords(delivered.call.args[1])) = 2

\* The row storeExperimentProfile(exp) inserts.
ProfileRow(exp) == InsertedRow(InsertProfileSql, BindAll(ProfileArgs(exp)))

\* The store holds the one profile exp, and a query by exp's id and revision has
\* been answered.
RoundTripOf(exp) ==
    /\ file.ExperimentProfile = <<ProfileRow(exp)>>
    /\ Answered("queryExperimentProfile")
    /\ delivered.call.args = <<Member(exp, "id"), Member(exp, "revision")>>

\* C7 (as claimed): the answer is one record whose params is deep-equal to the
\* stored params and whose id, execDuration and revision are the stored ones.
C7_ProfileRoundTrip ==
    \A exp \in Profiles :
        RoundTripOf(exp) =>
            /\ Len(Got) = 1
            /\ \A k \in {"params", "id", "execDuration", "revision"} :
                  Member(Got[1], k) = Member(exp, k)

\* A value that JSON text represents as it is: no undefined, no NaN.
RECURSIVE JsonRepresentable(_)
JsonRepresentable(v) ==
    CASE v.t \in {"number", "string", "null"} -> TRUE
      [] v.t \in {"array", "object"} -> \A i \in 1..Len(v.kids) : JsonRepresentable(v.kids[i])
      [] OTHER -> FALSE

\* C7 (amended): the answer is one record whose id, execDuration and revision are
\* the stored ones and whose params is what JSON.parse reads from the JSON text of
\* the stored params: deep-equal to the stored params when they hold nothing that
\* JSON text leaves out or replaces (an undefined member, NaN).
C7_ProfileRoundTripJson ==
    \A exp \in Profiles :
        RoundTripOf(exp) =>
            /\ Len(Got) = 1
            /\ \A k \in {"id", "execDuration", "revision"} : Member(Got[1], k) = Member(exp, k)
            /\ JSONstringify(Member(Got[1], "params")) = JSONstringify(Member(exp, "params"))
            /\ JsonRepresentable(Member(exp, "params")) =>
                  Member(Got[1], "params") = Member(exp, "params")

\* One profile with params that hold a string has been stored in this run into an
\* empty table and read back by id and revision.
C7_Witness ==
    /\ \E exp \in Profiles : RoundTripOf(exp) /\ Member(exp, "params") = ParamsText
    /\ Len(Got) = 1
    /\ Member(Got[1], "params") = ParamsText

\* ---------------------------------------------------------------- properties: optional fields
\* The profile, and the event, whose store call inserted the row.
StoredProfile(row) == CHOOSE exp \in Profiles : ProfileRow(exp) = row
EventRow(clock, e) ==
    InsertedRow(InsertEventSql, BindAll(EventArgs(clock, e.event, e.trialJobId, e.data, e.logPath)))
StoredEvent(row) == CHOOSE e \in TrialEvents : EventRow(FromSql(row.timestamp).n, e) = row

\* What identifies a record, followed by its optional fields.
ProfileOptionals(r) ==
    <<Member(r, "id"), Member(r, "revision"), Member(r, "execDuration"),
      Member(r, "startTime"), Member(r, "endTime")>>
EventOptionals(r) ==
    <<Member(r, "trialJobId"), Member(r, "event"), Member(r, "data"), Member(r, "logPath")>>

\* The rows a call's filters select: a filter that is undefined selects every row.
Selected(table, cols, filters) ==
    SelectSeq(file[table],
              LAMBDA row : \A i \in 1..Len(cols) :
                  filters[i] = Undefined \/ FromSql(row[cols[i]]) = filters[i])
Projected(seq, Op(_)) == [i \in 1..Len(seq) |-> Op(seq[i])]

\* C8: the records a query answers with carry, row for row, the startTime and
\* endTime (profiles) and the data and logPath (trial job events) that the store
\* call of the row was given: undefined where the call gave undefined, and the
\* value given, epoch-zero date and empty string included, where it gave one.
C8_OptionalRoundTrip ==
    /\ Answered("queryExperimentProfile") =>
          SameBag(Projected(Got, ProfileOptionals),
                  Projected(Selected("ExperimentProfile", <<"id", "revision">>,
                                     delivered.call.args),
                            LAMBDA row : ProfileOptionals(StoredProfile(row))))
    /\ Answered("queryTrialJobEvent") =>
          SameBag(Projected(Got, EventOptionals),
                  Projected(Selected("TrialJobEvent", <<"trialJobId", "event">>,
                                     delivered.call.args),
                            LAMBDA row :
                                LET e == StoredEvent(row)
                                IN <<e.trialJobId, e.event, e.data, e.logPath>>))

\* A profile stored with startTime at the epoch and no endTime has been read back
\* together with one stored with neither.
C8_Witness ==
    /\ Answered("queryExperimentProfile")
    /\ \E i \in 1..Len(Got) :
          Member(Got[i], "startTime") = DateOf(0) /\ Member(Got[i], "endTime") = Undefined
    /\ \E i \in 1..Len(Got) :
          Member(Got[i], "startTime") = Undefined /\ Member(Got[i], "endTime") = Undefined

\* An event stored with an empty data and an empty logPath has been read back.
EmptyStringsReadBack ==
    /\ Answered("queryTrialJobEvent")
    /\ \E i \in 1..Len(Got) :
          Member(Got[i], "data") = Text("") /\ Member(Got[i], "logPath") = Text("")

\* ---------------------------------------------------------------- properties: filters
\* C9: queryTrialJobEvent and queryMetricData answer with exactly the rows of their
\* table that match every filter given, one record per row: every row when neither
\* filter is given, the rows matching the one that is given, the rows matching both.
C9_FilterCombinatorics ==
    /\ Answered("queryTrialJobEvent") =>
          SameBag(Got, Projected(Selected("TrialJobEvent", <<"trialJobId", "event">>,
                                          delivered.call.args),
                                 LAMBDA row : loadTrialJobEvent(row).v))
    /\ Answered("queryMetricData") =>
          SameBag(Got, Projected(Selected("MetricData", <<"trialJobId", "type">>,
                                          delivered.call.args),
                                 LAMBDA row : loadMetricData(row).v))

\* With both filters given, a query of trial job events has answered with one row
\* of a table that holds another row of that trial job and another of that event.
C9_Witness ==
    /\ Answered("queryTrialJobEvent")
    /\ delivered.call.args = <<Text("t1"), Text("RUNNING")>>
    /\ Len(Got) = 1
    /\ Len(Selected("TrialJobEvent", <<"trialJobId", "event">>, <<Text("t1"), Undefined>>)) = 2
    /\ Len(Selected("TrialJobEvent", <<"trialJobId", "event">>, <<Undefined, Text("RUNNING")>>)) = 2

\* With only the type given, a query of metric data has answered with a proper
\* part of the table.
MetricTypeFilterApplied ==
    /\ Answered("queryMetricData")
    /\ delivered.call.args = <<Undefined, Text("PERIODICAL")>>
    /\ Len(Got) = 1
    /\ Len(file.MetricData) = 2

\* ---------------------------------------------------------------- properties: metric envelope
\* C10 (as claimed): a storeMetricData call whose data is not parseable JSON
\* returns a promise, and that promise is rejected.
C10_UnparseableEnvelopeRejects ==
    (lastCall.op = "storeMetricData" /\ ~ParseEnvelope(lastCall.args[2]).ok) =>
        /\ ~lastCall.threw
        /\ lastCall.promise # 0
        /\ deferred[lastCall.promise] = "rejected"

\* What the call does do: it throws a SyntaxError to its caller, having created no
\* Deferred and handed the driver nothing, so that no row is added.
C10_UnparseableEnvelopeThrows ==
    [][\A c \in MetricCalls :
          (storeMetricData(Text(c[1]), c[2]) /\ ~ParseEnvelope(c[2]).ok) =>
              /\ lastCall' = Threw("storeMetricData", <<Text(c[1]), c[2]>>, Err("SyntaxError"))
              /\ UNCHANGED <<file, deferred, queue>>]_vars

\* C11 (as claimed): a storeMetricData call whose data is parseable JSON that lacks
\* one of trialJobId, parameterId, type, sequence, data has its promise rejected,
\* and no row of the envelope is in MetricData.
RequiredMembers == {"trialJobId", "parameterId", "type", "sequence", "data"}
Incomplete(data) ==
    /\ ParseEnvelope(data).ok
    /\ \E k \in RequiredMembers : Member(ParseEnvelope(data).v, k) = Undefined
MetricRow(clock, data) ==
    InsertedRow(InsertMetricSql, BindAll(MetricArgs(clock, ParseEnvelope(data).v)))
C11_IncompleteEnvelopeRejects ==
    (delivered.call.op = "storeMetricData" /\ Incomplete(delivered.call.args[2])) =>
        /\ delivered.kind = "rejected"
        /\ \A i \in 1..Len(file.MetricData), clock \in 0..MaxClock :
              file.MetricData[i] # MetricRow(clock, delivered.call.args[2])

\* ---------------------------------------------------------------- properties: row-load failure
\* The rows a query call selects, and whether one of them holds text that is not
\* JSON in the column that carries JSON.
QueryTable(op) == IF op = "queryMetricData" THEN "MetricData" ELSE "ExperimentProfile"
QueryColumns(op) ==
    CASE op = "queryMetricData" -> <<"trialJobId", "type">>
      [] op = "queryLatestExperimentProfile" -> <<"id">>
      [] OTHER -> <<"id", "revision">>
JsonColumn(op) == IF op = "queryMetricData" THEN "data" ELSE "params"
ReadsMalformed(call) ==
    \E i \in 1..Len(Selected(QueryTable(call.op), QueryColumns(call.op), call.args)) :
        ~JSONparse(FromSql(Selected(QueryTable(call.op), QueryColumns(call.op),
                                    call.args)[i][JsonColumn(call.op)])).ok

\* C12 (as claimed): when the select of a query ran without error and read a row
\* whose params or data column holds malformed JSON, the promise of the query is
\* rejected.
C12_RowLoadFailureRejects ==
    (/\ delivered.call.op \in {"queryExperimentProfile", "queryLatestExperimentProfile",
                               "queryMetricData"}
     /\ delivered.error = JNull
     /\ ReadsMalformed(delivered.call)) =>
        deferred[delivered.promise] = "rejected"

\* What the code does with such rows: a profile query's promise stays pending, the
\* loader's exception leaving through the driver's callback; a metric query resolves
\* with the malformed text as the record's data.
C12_RowLoadFailureOutcome ==
    (delivered.error = JNull /\ delivered.call.op # "" /\ delivered.call.op # "init"
     /\ delivered.call.op # "close" /\ ReadsMalformed(delivered.call)) =>
        IF delivered.call.op = "queryMetricData"
        THEN /\ deferred[delivered.promise] = "resolved"
             /\ \E i \in 1..Len(Got) : Member(Got[i], "data") = NotJson
        ELSE /\ delivered.kind = "threw"
             /\ deferred[delivered.promise] = "pending"

\* ---------------------------------------------------------------- properties: completion
\* The promises that public operations have returned to their callers.
ReturnedPromises ==
    {initReturned[i].promise : i \in 1..Len(initReturned)}
        \cup {d \in 1..Len(deferred) : d # initTask}

\* C13 (as claimed): once the driver has invoked every callback it was given, every
\* promise a public operation returned is resolved or rejected.
C13_Completion ==
    queue = <<>> => \A d \in ReturnedPromises : deferred[d] # "pending"

\* The part of C13 that holds: a promise that is resolved or rejected stays so.
C13_SettledAtMostOnce ==
    [][\A d \in 1..Len(deferred) : deferred[d] # "pending" => deferred'[d] = deferred[d]]_vars

\* The promises left pending with no callback outstanding are those of init calls
\* that followed an init call aborted on its directory, and those of profile
\* queries whose row loader threw.
C13_PendingForever ==
    queue = <<>> =>
        \A d \in ReturnedPromises :
            deferred[d] = "pending" =>
                \/ d = initTask /\ opened = <<>>
                \/ \E i \in 1..Len(file.ExperimentProfile) :
                      ~JSONparse(FromSql(file.ExperimentProfile[i].params)).ok

\* ---------------------------------------------------------------- properties: storage
\* The table a store operation writes.
OwnTable(op) ==
    CASE op = "storeExperimentProfile" -> "ExperimentProfile"
      [] op = "storeTrialJobEvent" -> "TrialJobEvent"
      [] OTHER -> "MetricData"
StoreOps == {"storeExperimentProfile", "storeTrialJobEvent", "storeMetricData"}

\* A store operation succeeds in this step: its promise is resolved.
StoreSucceeds ==
    /\ RunCallback
    /\ delivered'.call.op \in StoreOps
    /\ delivered'.kind = "resolved"

\* C14: a step in which a store operation succeeds adds one row at the end of the
\* operation's own table and leaves the rows before it and the other two tables as
\* they were; every other step (a call, a query's, init's or close's callback, a
\* store that fails) leaves the rows of all three tables as they were.
C14_AppendOnly ==
    [][IF StoreSucceeds
       THEN /\ Len(file'[OwnTable(delivered'.call.op)])
                  = Len(file[OwnTable(delivered'.call.op)]) + 1
            /\ SubSeq(file'[OwnTable(delivered'.call.op)], 1,
                      Len(file[OwnTable(delivered'.call.op)]))
                  = file[OwnTable(delivered'.call.op)]
            /\ \A t \in Tables \ {OwnTable(delivered'.call.op)} : file'[t] = file[t]
       ELSE \A t \in Tables : file'[t] = file[t]]_vars

\* A metric store has succeeded after a profile store: each of the two tables has
\* the rows of the earlier run and one more after them, the third has the rows of
\* the earlier run.
C14_Witness ==
    /\ delivered.call.op = "storeMetricData"
    /\ delivered.kind = "resolved"
    /\ Len(file.MetricData) = Len(EarlierRows.MetricData) + 1
    /\ SubSeq(file.MetricData, 1, Len(EarlierRows.MetricData)) = EarlierRows.MetricData
    /\ Len(file.ExperimentProfile) = Len(EarlierRows.ExperimentProfile) + 1
    /\ SubSeq(file.ExperimentProfile, 1, Len(EarlierRows.ExperimentProfile))
           = EarlierRows.ExperimentProfile
    /\ file.TrialJobEvent = EarlierRows.TrialJobEvent

\* ---------------------------------------------------------------- properties: restart
\* The acknowledged rows of a table that a query with the given filters selects.
AcknowledgedSelected(table, cols, filters) ==
    SelectSeq(acknowledged[table],
              LAMBDA row : \A i \in 1..Len(cols) :
                  filters[i] = Undefined \/ FromSql(row[cols[i]]) = filters[i])
\* Every element of b is in a at least as many times as in b.
Contains(a, b) == \A i \in 1..Len(b) : Count(a, b[i]) >= Count(b, b[i])

\* C15: in the run after the restart, on a database opened without createNew, the
\* answer of a list query holds, for every row that a store acknowledged (promise
\* resolved) before the close of the first run and that the query's filters select,
\* the record loaded from that row as it was written; the latest-profile query
\* answers with a record of the highest revision among the acknowledged rows of the
\* experiment and the rows that were there before.
C15_Durability ==
    process = 1 =>
        /\ Answered("queryExperimentProfile") =>
              Contains(Got, Projected(AcknowledgedSelected("ExperimentProfile",
                                                           <<"id", "revision">>,
                                                           delivered.call.args),
                                      LAMBDA row : loadExperimentProfile(row).v))
        /\ Answered("queryTrialJobEvent") =>
              Contains(Got, Projected(AcknowledgedSelected("TrialJobEvent",
                                                           <<"trialJobId", "event">>,
                                                           delivered.call.args),
                                      LAMBDA row : loadTrialJobEvent(row).v))
        /\ Answered("queryMetricData") =>
              Contains(Got, Projected(AcknowledgedSelected("MetricData",
                                                           <<"trialJobId", "type">>,
                                                           delivered.call.args),
                                      LAMBDA row : loadMetricData(row).v))
        /\ Answered("queryLatestExperimentProfile") =>
              \A i \in 1..Len(AcknowledgedSelected("ExperimentProfile", <<"id">>,
                                                   delivered.call.args)) :
                  Member(delivered.value, "revision").n
                      >= FromSql(AcknowledgedSelected("ExperimentProfile", <<"id">>,
                                                      delivered.call.args)[i].revision).n

\* After the restart a query of trial job events is answered with the event that
\* the first run stored in a database file it had created.
C15_Witness ==
    /\ process = 1
    /\ Answered("queryTrialJobEvent")
    /\ Len(acknowledged.TrialJobEvent) = 1
    /\ file.TrialJobEvent = acknowledged.TrialJobEvent
    /\ Len(Got) = 1
    /\ Got[1] = loadTrialJobEvent(acknowledged.TrialJobEvent[1]).v
    /\ opened = <<"/exp">>

\* ---------------------------------------------------------------- properties: the bridge
ListQueries == {"queryExperimentProfile", "queryTrialJobEvent", "queryMetricData"}
ListTable(op) ==
    CASE op = "queryExperimentProfile" -> "ExperimentProfile"
      [] op = "queryTrialJobEvent" -> "TrialJobEvent"
      [] OTHER -> "MetricData"
ListColumns(op) ==
    CASE op = "queryExperimentProfile" -> <<"id", "revision">>
      [] op = "queryTrialJobEvent" -> <<"trialJobId", "event">>
      [] OTHER -> <<"trialJobId", "type">>
ListLoader(op) ==
    CASE op = "queryExperimentProfile" -> "loadExperimentProfile"
      [] op = "queryTrialJobEvent" -> "loadTrialJobEvent"
      [] OTHER -> "loadMetricData"
\* The rows that the statement of a list query selects, in the order of the table.
RawRows(call) == Selected(ListTable(call.op), ListColumns(call.op), call.args)
\* The statement of the call has no ORDER BY: the engine returns the rows in the
\* order of the table.
Unordered(call) == call.op # "queryExperimentProfile" \/ call.args[2] # Undefined

\* What the bridge does with a null error and the rows of a list query: a list with
\* one loaded record per row, in the rows' order.
LoadedInOrder ==
    /\ delivered.kind = "resolved"
    /\ deferred[delivered.promise] = "resolved"
    /\ Len(Got) = Len(RawRows(delivered.call))
    /\ \A i \in 1..Len(Got) :
          Count(Got, Got[i])
              = Cardinality({j \in 1..Len(Got) :
                    Load(ListLoader(delivered.call.op), RawRows(delivered.call)[j])
                        = [ok |-> TRUE, v |-> Got[i]]})
    /\ Unordered(delivered.call) =>
          \A i \in 1..Len(Got) :
              Load(ListLoader(delivered.call.op), RawRows(delivered.call)[i])
                  = [ok |-> TRUE, v |-> Got[i]]

\* C16 (as claimed): whatever driver callback has run, if the driver passed it an
\* error the operation's promise is rejected with that error; if it passed null and
\* the operation has no row loader the promise is resolved with no value; if it
\* passed null and the operation has a row loader the promise is resolved with the
\* list of the records loaded from the rows, one per row, in the rows' order.
C16_CallbackBridge ==
    delivered.promise # 0 =>
        /\ delivered.error # JNull =>
              /\ delivered.kind = "rejected"
              /\ delivered.value = delivered.error
              /\ deferred[delivered.promise] = "rejected"
        /\ (delivered.error = JNull
               /\ delivered.call.op \notin ListQueries \cup {"queryLatestExperimentProfile"}) =>
              /\ delivered.kind = "resolved"
              /\ delivered.value = Undefined
              /\ deferred[delivered.promise] = "resolved"
        /\ (delivered.error = JNull /\ delivered.call.op \in ListQueries) => LoadedInOrder

\* The callbacks for which C16's statement holds: every callback but that of
\* db.exec, whose error is not the one handed to the bridge, and with a row loader
\* only when every row loads.
C16_BridgeRoutine ==
    (delivered.promise # 0 /\ ~(delivered.call.op = "init" /\ execs > 0)) =>
        /\ delivered.error # JNull =>
              /\ delivered.kind = "rejected"
              /\ delivered.value = delivered.error
              /\ deferred[delivered.promise] = "rejected"
        /\ (delivered.error = JNull
               /\ delivered.call.op \notin ListQueries \cup {"queryLatestExperimentProfile"}) =>
              /\ delivered.kind = "resolved"
              /\ delivered.value = Undefined
              /\ deferred[delivered.promise] = "resolved"
        /\ (delivered.error = JNull /\ delivered.call.op \in ListQueries
               /\ \A i \in 1..Len(RawRows(delivered.call)) :
                     Load(ListLoader(delivered.call.op), RawRows(delivered.call)[i]).ok) =>
              LoadedInOrder

\* ---------------------------------------------------------------- properties: timestamps
TimestampedTables == {"TrialJobEvent", "MetricData"}
\* This step is a call of storeTrialJobEvent or storeMetricData that hands an
\* insert to the driver.
TimestampedStoreCalled ==
    /\ Len(queue') = Len(queue) + 1
    /\ queue'[Len(queue')].op = "run"
    /\ Statement(queue'[Len(queue')].sql).table \in TimestampedTables
\* This step is the callback of such an insert, and the insert succeeded.
TimestampedRowWritten ==
    /\ RunCallback
    /\ StatementError = JNull
    /\ Statement(Head(queue).sql).table \in TimestampedTables

\* C17: a call of storeTrialJobEvent or storeMetricData binds as timestamp the
\* clock's reading at the call, whatever the metric envelope carries; the row the
\* insert writes has the timestamp that the call bound; and after every step the
\* rows of TrialJobEvent and of MetricData, in insertion order, have non-decreasing
\* timestamps.
C17_StoreTimestamps ==
    [][/\ TimestampedStoreCalled => queue'[Len(queue')].args[1] = SqlInt(now)
       /\ TimestampedRowWritten =>
             LET rows == file'[Statement(Head(queue).sql).table]
             IN rows[Len(rows)].timestamp = Head(queue).args[1]
       /\ \A t \in TimestampedTables : Ascending(file'[t], "timestamp")]_vars

\* After the clock advanced, the envelope that carries a timestamp of its own has
\* been stored after an earlier metric: its row has the clock's reading.
C17_Witness ==
    /\ delivered.call.op = "storeMetricData"
    /\ delivered.call.args[2] = EnvelopeWithTimestamp
    /\ delivered.kind = "resolved"
    /\ Len(file.MetricData) = 2
    /\ file.MetricData[1].timestamp = SqlInt(0)
    /\ file.MetricData[2].timestamp = SqlInt(1)
    /\ Member(ParseEnvelope(EnvelopeWithTimestamp).v, "timestamp") = Num(9)

\* ---------------------------------------------------------------- properties: aborted init
\* The first init call of the instance has aborted on the assertion: initTask is
\* assigned and the driver was not asked to open anything.
InitAborted == initTask # 0 /\ opened = <<>>

\* C18: an init call that aborts on a missing directory leaves initTask assigned
\* with nothing asked of the driver; from then on, at every step, initTask stays the
\* same promise, that promise stays pending, the driver is asked to open nothing,
\* and an init call that returns, whatever its directory, returns that promise.
C18_AbortedInitPoisons ==
    [][/\ (lastCall' # lastCall /\ lastCall'.threw /\ lastCall'.op = "init") => InitAborted'
       /\ InitAborted =>
             /\ initTask' = initTask
             /\ deferred'[initTask] = "pending"
             /\ opened' = <<>>
             /\ \A i \in 1..Len(queue') : queue'[i].op # "open"
             /\ Len(initReturned') > Len(initReturned) =>
                   initReturned'[Len(initReturned')].promise = initTask]_vars

\* After an init call aborted, an init call naming an existing directory has
\* returned the promise of the aborted call, which is pending.
C18_Witness ==
    /\ InitAborted
    /\ Len(initReturned) >= 1
    /\ initReturned[Len(initReturned)].dbDir \in ExistingDirs
    /\ initReturned[Len(initReturned)].promise = initTask
    /\ deferred[initTask] = "pending"
    /\ lastCall = Returned("init", InitArgs(TRUE, "/exp"), initTask)

\* ---------------------------------------------------------------- properties: the metric's trial job
\* The trialJobId member of the envelope that a storeMetricData call was given.
EnvelopeTrialJobId(call) == Member(ParseEnvelope(call.args[2]).v, "trialJobId")

\* C19: the row that a resolved storeMetricData(trialJobId, data) has written holds
\* in its trialJobId column the trialJobId member of the envelope in `data`,
\* whatever the argument; and queryMetricData(trialJobId, ...) answers with the
\* records of exactly the rows whose column, hence whose envelope's id, equals the
\* id asked for.
C19_EnvelopeTrialJobId ==
    /\ (delivered.call.op = "storeMetricData" /\ delivered.kind = "resolved") =>
          file.MetricData[Len(file.MetricData)].trialJobId
              = Bind(EnvelopeTrialJobId(delivered.call))
    /\ (Answered("queryMetricData") /\ delivered.call.args[1] # Undefined) =>
          /\ \A i \in 1..Len(Got) : Member(Got[i], "trialJobId") = delivered.call.args[1]
          /\ Len(Got) = Len(Selected("MetricData", <<"trialJobId", "type">>,
                                     delivered.call.args))

\* A metric was stored under the argument "t2" with an envelope of trial job "t1":
\* its row is of "t1", beside the earlier row of "t1".
C19_Witness ==
    /\ delivered.call.op = "storeMetricData"
    /\ delivered.kind = "resolved"
    /\ delivered.call.args[1] = Text("t2")
    /\ EnvelopeTrialJobId(delivered.call) = Text("t1")
    /\ Len(file.MetricData) = 2
    /\ file.MetricData[2].trialJobId = Bind(Text("t1"))

\* ---------------------------------------------------------------- properties: payloads
\* The data member of the envelope that a storeMetricData call was given.
Payload(call) == Member(ParseEnvelope(call.args[2]).v, "data")
\* A store of the named operation has been resolved: the last row of its table is
\* the row it wrote.
Stored(op) == delivered.call.op = op /\ delivered.kind = "resolved"
\* The data that a query returns for the metric just stored, and the params it
\* returns for the profile just stored.
StoredMetricData ==
    Member(loadMetricData(file.MetricData[Len(file.MetricData)]).v, "data")
StoredProfileParams ==
    Member(loadExperimentProfile(file.ExperimentProfile[Len(file.ExperimentProfile)]).v,
           "params")
\* Profile params are parsed back: what a query returns is the value that
\* JSON.parse reads from the JSON text of the params stored.
ParamsParsedBack ==
    Stored("storeExperimentProfile") =>
        /\ StoredProfileParams
              = JSONparse(JSONstringify(Member(delivered.call.args[1], "params"))).v
        /\ JsonRepresentable(Member(delivered.call.args[1], "params")) =>
              StoredProfileParams = Member(delivered.call.args[1], "params")

====
